---- MODULE Spec2Model ----
(***************************************************************************)
(* ssorepeat: the argument parser (parse_arguments.py), the filter         *)
(* pipeline (filter.py), the executor (executor.py, ssosession.py) and     *)
(* the entry point run() that chains them (cli.py).                        *)
(*                                                                         *)
(* Python lists are sequences.  Python positions are 0-based and are kept  *)
(* 0-based wherever the code computes with them (help_pos, exec_pos,       *)
(* consume, consumed); argv[k] of the code is argv[k + 1] here.            *)
(* Optional[T] is a sequence of length at most one: <<>> is None.          *)
(***************************************************************************)
EXTENDS Integers, Sequences, FiniteSets

VARIABLES
    \* parse_arguments
    sys_argv,       \* the tokens handed to parse_arguments, program name first
    ppc,            \* "call" | "returned" | "raised"
    parsed,         \* what parse_arguments returned or raised
    \* filter_accounts
    filters,        \* parameter `filters`
    accounts,       \* parameter `accounts`
    default_role,   \* parameter `default_role`
    argv,           \* local `argv`: the filter tokens not consumed yet
    acc_buf,        \* local `acc_buf`: the buffer
    result,         \* local `result`: the associations
    fpc,            \* "idle" | "loop" | "returned" | "raised"
    fexc,           \* the exception filter_accounts raised, if any
    last,           \* the loop step just executed: its operation and the state before it
    \* Executor
    mode,           \* "idle" | "list" | "creds" | "exec"
    associations,   \* parameter `associations`
    command_args,   \* parameter `command_args` of run_sequence
    account_roles,  \* the collaborator's role list of each account
    epc,            \* "idle" | "start" | "loop" | "done" | "aborted"
    pos,            \* number of associations the for loop has taken
    first,          \* local `first`
    out,            \* what has been written to sys.stdout, one element per write
    answers,        \* the collaborator's answer to each association taken, in order
    cache,          \* lru_cache of get_account_roles: <<accountId, roles>>, oldest first
    role_calls,     \* how often the collaborator enumerated the roles of each account
    flushed,        \* how many of the writes sys.stdout.flush() has pushed out
    os_environ,     \* os.environ, the orchestrator's own environment
    runs,           \* the subprocess.run calls made: arguments, environment, outcome
    \* cli.run
    rpc,            \* "idle" | "parse" | "session" | "filter" | "executor" |
                    \* "returned" | "uncaught" (an exception left run())
    sso,            \* "none" | "ok" | the exception SsoSession(profile) raised
    run_return,     \* what run() returned, None while it has not returned
    session_calls   \* the calls run() itself has made to the session, in order

pvars == <<sys_argv, ppc, parsed>>
fvars == <<filters, accounts, default_role, argv, acc_buf, result, fpc, fexc, last>>
evars == <<mode, associations, command_args, account_roles, epc, pos, first, out,
           answers, cache, role_calls, flushed, os_environ, runs>>
rvars == <<rpc, sso, run_return, session_calls>>
vars == <<pvars, fvars, evars, rvars>>

(***************************************************************************)
(* Bounds                                                                  *)
(***************************************************************************)
MaxArgs == 4
MaxFilters == 4
MaxAssocs == 3
MaxCliArgs == 3

(***************************************************************************)
(* Python list helpers                                                     *)
(***************************************************************************)
\* argv[n:]
Drop(s, n) == IF n >= Len(s) THEN <<>> ELSE SubSeq(s, n + 1, Len(s))

\* argv[0:n]
Take(s, n) == IF n >= Len(s) THEN s ELSE SubSeq(s, 1, n)

\* All sequences over S of length at most n
SeqsUpTo(S, n) == UNION {[1..k -> S] : k \in 0..n}

None == <<>>
Some(v) == <<v>>

\* list.index(x, start, stop): the 0-based position of the first x in
\* argv[start:stop]; -1 stands for the ValueError list.index raises.
RECURSIVE index(_, _, _, _)
index(s, x, start, stop) ==
    IF start >= stop \/ start >= Len(s) THEN -1
    ELSE IF s[start + 1] = x THEN start
    ELSE index(s, x, start + 1, stop)

(***************************************************************************)
(* parse_arguments.py                                                      *)
(***************************************************************************)
NoExc == [type |-> "none", arg |-> "", pos |-> 0]
InvalidArgument(arg, p) == [type |-> "InvalidArgument", arg |-> arg, pos |-> p]
MissingArgumentParameter(arg) ==
    [type |-> "MissingArgumentParameter", arg |-> arg, pos |-> 0]

\* Variant of _has_parameter_or_throw that reports a flag without a value as
\* absent instead of raising.
_has_parameter_or_false(a, arg) ==
    IF a[1] # arg THEN "false"
    ELSE IF Len(a) = 1 THEN "false"
    ELSE "true"

\* "false" | "true" | "raise" (MissingArgumentParameter(arg))
_has_parameter_or_throw(a, arg) ==
    IF a[1] # arg THEN "false"
    ELSE IF Len(a) = 1 THEN "raise"
    ELSE "true"

\* Variant of _parse_help that looks only at the token just before --help.
_parse_help_any_exec(a) ==
    LET help_pos == index(a, "--help", 0, Len(a)) IN
    IF help_pos = -1 THEN FALSE
    ELSE LET exec_pos == index(a, "exec", 0, help_pos) IN
         IF exec_pos = -1 THEN TRUE
         ELSE a[help_pos] = "exec"

_parse_help(a) ==
    LET help_pos == index(a, "--help", 0, Len(a)) IN
    IF help_pos = -1 THEN FALSE
    ELSE LET exec_pos == index(a, "exec", 0, help_pos) IN
         IF exec_pos = -1 THEN TRUE
         ELSE exec_pos = help_pos - 1

\* Variant of _parse_profile that returns argv[0], the flag, as the profile.
_parse_profile_returns_flag(a) ==
    IF Len(a) > 0 /\ _has_parameter_or_throw(a, "--profile") = "raise"
    THEN [exc |-> MissingArgumentParameter("--profile"), consume |-> 0, profile |-> None]
    ELSE IF Len(a) > 0 /\ _has_parameter_or_throw(a, "--profile") = "true"
    THEN [exc |-> NoExc, consume |-> 2, profile |-> Some(a[1])]
    ELSE [exc |-> NoExc, consume |-> 0, profile |-> None]

\* [exc, consume, profile]
_parse_profile(a) ==
    IF Len(a) > 0 /\ _has_parameter_or_throw(a, "--profile") = "raise"
    THEN [exc |-> MissingArgumentParameter("--profile"), consume |-> 0, profile |-> None]
    ELSE IF Len(a) > 0 /\ _has_parameter_or_throw(a, "--profile") = "true"
    THEN [exc |-> NoExc, consume |-> 2, profile |-> Some(a[2])]
    ELSE [exc |-> NoExc, consume |-> 0, profile |-> None]

\* The while loop of _parse_filters, with its locals as parameters.
\* [exc, consume, filters]
RECURSIVE _parse_filters_loop(_, _, _)
_parse_filters_loop(a, consume, fs) ==
    IF ~(Len(a) > 0) THEN [exc |-> NoExc, consume |-> consume, filters |-> fs]
    ELSE IF _has_parameter_or_throw(a, "--include-only") = "raise"
    THEN [exc |-> MissingArgumentParameter("--include-only"), consume |-> consume, filters |-> fs]
    ELSE IF _has_parameter_or_throw(a, "--include-only") = "true"
    THEN _parse_filters_loop(Drop(a, 2), consume + 2, fs \o Take(a, 2))
    ELSE IF _has_parameter_or_throw(a, "--exclude") = "raise"
    THEN [exc |-> MissingArgumentParameter("--exclude"), consume |-> consume, filters |-> fs]
    ELSE IF _has_parameter_or_throw(a, "--exclude") = "true"
    THEN _parse_filters_loop(Drop(a, 2), consume + 2, fs \o Take(a, 2))
    ELSE IF _has_parameter_or_throw(a, "--assoc") = "raise"
    THEN [exc |-> MissingArgumentParameter("--assoc"), consume |-> consume, filters |-> fs]
    ELSE IF _has_parameter_or_throw(a, "--assoc") = "true"
    THEN _parse_filters_loop(Drop(a, 2), consume + 2, fs \o Take(a, 2))
    ELSE IF a[1] = "--assoc-default"
    THEN _parse_filters_loop(Drop(a, 1), consume + 1, fs \o Take(a, 1))
    ELSE IF a[1] = "--reset"
    THEN _parse_filters_loop(Drop(a, 1), consume + 1, fs \o Take(a, 1))
    ELSE [exc |-> NoExc, consume |-> consume, filters |-> fs]

_parse_filters(a) == _parse_filters_loop(a, 0, <<>>)

\* The tokens each iteration of _parse_filters' loop consumes, in order, up to
\* the iteration that raises or breaks.
RECURSIVE _parse_filters_steps(_)
_parse_filters_steps(a) ==
    IF ~(Len(a) > 0) THEN <<>>
    ELSE IF _has_parameter_or_throw(a, "--include-only") = "raise" THEN <<>>
    ELSE IF _has_parameter_or_throw(a, "--include-only") = "true"
    THEN <<Take(a, 2)>> \o _parse_filters_steps(Drop(a, 2))
    ELSE IF _has_parameter_or_throw(a, "--exclude") = "raise" THEN <<>>
    ELSE IF _has_parameter_or_throw(a, "--exclude") = "true"
    THEN <<Take(a, 2)>> \o _parse_filters_steps(Drop(a, 2))
    ELSE IF _has_parameter_or_throw(a, "--assoc") = "raise" THEN <<>>
    ELSE IF _has_parameter_or_throw(a, "--assoc") = "true"
    THEN <<Take(a, 2)>> \o _parse_filters_steps(Drop(a, 2))
    ELSE IF a[1] = "--assoc-default"
    THEN <<Take(a, 1)>> \o _parse_filters_steps(Drop(a, 1))
    ELSE IF a[1] = "--reset"
    THEN <<Take(a, 1)>> \o _parse_filters_steps(Drop(a, 1))
    ELSE <<>>

\* Variant of _parse_commands in which exec stops taking tokens at the first --help.
_parse_commands_stop_at_help(a) ==
    IF Len(a) > 0 /\ a[1] = "exec"
    THEN IF index(a, "--help", 0, Len(a)) # -1
         THEN [consume |-> Len(a), commands |-> Take(a, index(a, "--help", 0, Len(a)))]
         ELSE [consume |-> Len(a), commands |-> a]
    ELSE IF Len(a) > 0 /\ a[1] \in {"list", "creds"}
    THEN [consume |-> 1, commands |-> Take(a, 1)]
    ELSE [consume |-> 0, commands |-> <<>>]

\* [consume, commands]
_parse_commands(a) ==
    IF Len(a) > 0
    THEN IF a[1] = "exec" THEN [consume |-> Len(a), commands |-> a]
         ELSE IF a[1] = "list" THEN [consume |-> 1, commands |-> Take(a, 1)]
         ELSE IF a[1] = "creds" THEN [consume |-> 1, commands |-> Take(a, 1)]
         ELSE [consume |-> 0, commands |-> <<>>]
    ELSE [consume |-> 0, commands |-> <<>>]

Returned(h, p, f, c) ==
    [status |-> "returned", show_help |-> h, profile |-> p, filters |-> f,
     commands |-> c, exc |-> NoExc]
Raised(e) ==
    [status |-> "raised", show_help |-> FALSE, profile |-> None, filters |-> <<>>,
     commands |-> <<>>, exc |-> e]

\* Variant of parse_arguments that looks for help only once the segments
\* have been parsed without error.
parse_arguments_help_after_errors(full_argv) ==
    LET a0 == Drop(full_argv, 1)
        p  == _parse_profile(a0) IN
    IF p.exc # NoExc THEN Raised(p.exc)
    ELSE
    LET a1 == Drop(a0, p.consume)
        f  == _parse_filters(a1) IN
    IF f.exc # NoExc THEN Raised(f.exc)
    ELSE
    LET a2 == Drop(a1, f.consume)
        c  == _parse_commands(a2)
        a3 == Drop(a2, c.consume)
        consumed == p.consume + f.consume + c.consume IN
    IF Len(a3) > 0 THEN Raised(InvalidArgument(a3[1], consumed + 1))
    ELSE IF _parse_help(a0) THEN Returned(TRUE, None, <<>>, <<>>)
    ELSE Returned(FALSE, p.profile, f.filters, c.commands)

\* Variant of parse_arguments that reports the 0-based position of the leftover.
parse_arguments_position_0_based(full_argv) ==
    LET a0 == Drop(full_argv, 1) IN
    IF _parse_help(a0) THEN Returned(TRUE, None, <<>>, <<>>)
    ELSE
    LET p  == _parse_profile(a0) IN
    IF p.exc # NoExc THEN Raised(p.exc)
    ELSE
    LET a1 == Drop(a0, p.consume)
        f  == _parse_filters(a1) IN
    IF f.exc # NoExc THEN Raised(f.exc)
    ELSE
    LET a2 == Drop(a1, f.consume)
        c  == _parse_commands(a2)
        a3 == Drop(a2, c.consume)
        consumed == p.consume + f.consume + c.consume IN
    IF Len(a3) > 0 THEN Raised(InvalidArgument(a3[1], consumed))
    ELSE Returned(FALSE, p.profile, f.filters, c.commands)

parse_arguments(full_argv) ==
    LET a0 == Drop(full_argv, 1) IN
    IF _parse_help(a0) THEN Returned(TRUE, None, <<>>, <<>>)
    ELSE
    LET p  == _parse_profile(a0) IN
    IF p.exc # NoExc THEN Raised(p.exc)
    ELSE
    LET a1 == Drop(a0, p.consume)
        f  == _parse_filters(a1) IN
    IF f.exc # NoExc THEN Raised(f.exc)
    ELSE
    LET a2 == Drop(a1, f.consume)
        c  == _parse_commands(a2)
        a3 == Drop(a2, c.consume)
        consumed == p.consume + f.consume + c.consume IN
    IF Len(a3) > 0 THEN Raised(InvalidArgument(a3[1], consumed + 1))
    ELSE Returned(FALSE, p.profile, f.filters, c.commands)

(***************************************************************************)
(* Python strings.  A token is a TLA+ string; the characters of the        *)
(* strings that the code searches or splits are spelled out here.  A token *)
(* that is not listed (a flag, "R") holds no comma and occurs in no        *)
(* account name, so it is one opaque character.                            *)
(***************************************************************************)
chars(s) ==
    CASE s = ""    -> <<>>
      [] s = "ab"  -> <<"a", "b">>
      [] s = "a,b" -> <<"a", ",", "b">>
      [] OTHER     -> <<s>>

str(cs) ==
    IF cs = <<>> THEN ""
    ELSE IF Len(cs) = 1 THEN cs[1]
    ELSE CHOOSE s \in {"ab", "a,b"} : chars(s) = cs

\* str.split(","): the pieces between the commas, empty pieces included.
\* `cur` is the piece being read, `done` the pieces already cut.
RECURSIVE split_loop(_, _, _)
split_loop(cs, cur, done) ==
    IF cs = <<>> THEN Append(done, str(cur))
    ELSE IF Head(cs) = "," THEN split_loop(Tail(cs), <<>>, Append(done, str(cur)))
    ELSE split_loop(Tail(cs), Append(cur, Head(cs)), done)

split(s) == split_loop(chars(s), <<>>, <<>>)

\* re.compile(regex_str).search(name) for the patterns of the model, which
\* hold no regex metacharacter: regex_str occurs somewhere in name.
search(regex_str, name) ==
    LET pat == chars(regex_str)
        txt == chars(name) IN
    \E i \in 1..(Len(txt) + 1) :
        /\ i + Len(pat) - 1 <= Len(txt)
        /\ \A j \in 1..Len(pat) : txt[i + j - 1] = pat[j]

(***************************************************************************)
(* filter.py                                                               *)
(***************************************************************************)
UnexpectedFilterArgument(arg) == [type |-> "UnexpectedFilterArgument", arg |-> arg, pos |-> 0]
MissingFilterParameter(arg) == [type |-> "MissingFilterParameter", arg |-> arg, pos |-> 0]

\* Variant of filter.py's _has_parameter_or_throw that refuses a value that is
\* itself a filter flag.
filter_has_parameter_no_flag_value(a, arg) ==
    IF a[1] # arg THEN "false"
    ELSE IF Len(a) = 1 THEN "raise"
    ELSE IF a[2] \in {"--include-only", "--exclude", "--assoc", "--assoc-default", "--reset"}
    THEN "raise"
    ELSE "true"

\* filter.py's own _has_parameter_or_throw: "false" | "true" | "raise"
filter_has_parameter_or_throw(a, arg) ==
    IF a[1] # arg THEN "false"
    ELSE IF Len(a) = 1 THEN "raise"
    ELSE "true"

\* Variant of _buf_include_only that returns the matching accounts last first.
_buf_include_only_reversed(buf, regex_str) ==
    LET kept == SelectSeq(buf, LAMBDA account : search(regex_str, account.accountName)) IN
    [k \in 1..Len(kept) |-> kept[Len(kept) + 1 - k]]

_buf_include_only(buf, regex_str) ==
    SelectSeq(buf, LAMBDA account : search(regex_str, account.accountName))

_buf_exclude(buf, regex_str) ==
    SelectSeq(buf, LAMBDA account : ~search(regex_str, account.accountName))

Association(account, role_name) ==
    [accountName |-> account.accountName, accountId |-> account.accountId,
     role |-> role_name]

\* The two nested for loops of _result_associate: accounts outside, roles inside.
RECURSIVE associate_roles(_, _, _)
associate_roles(account, roles, res) ==
    IF roles = <<>> THEN res
    ELSE associate_roles(account, Tail(roles), Append(res, Association(account, Head(roles))))

RECURSIVE associate_accounts(_, _, _)
associate_accounts(buf, role_names, res) ==
    IF buf = <<>> THEN res
    ELSE associate_accounts(Tail(buf), role_names,
                            associate_roles(Head(buf), split(role_names), res))

\* Variant of _result_associate with the loops swapped: roles outside, accounts inside.
RECURSIVE associate_role_major(_, _, _)
associate_role_major(buf, roles, res) ==
    IF roles = <<>> THEN res
    ELSE associate_role_major(buf, Tail(roles),
            res \o [k \in 1..Len(buf) |-> Association(buf[k], Head(roles))])

_result_associate_role_major(buf, role_names) ==
    associate_role_major(buf, split(role_names), <<>>)

_result_associate(buf, role_names) == associate_accounts(buf, role_names, <<>>)

\* The branch the if/elif chain of filter_accounts' loop takes on argv.
filter_branch(a) ==
    IF filter_has_parameter_or_throw(a, "--include-only") = "raise" THEN "missing"
    ELSE IF filter_has_parameter_or_throw(a, "--include-only") = "true" THEN "--include-only"
    ELSE IF filter_has_parameter_or_throw(a, "--exclude") = "raise" THEN "missing"
    ELSE IF filter_has_parameter_or_throw(a, "--exclude") = "true" THEN "--exclude"
    ELSE IF filter_has_parameter_or_throw(a, "--assoc") = "raise" THEN "missing"
    ELSE IF filter_has_parameter_or_throw(a, "--assoc") = "true" THEN "--assoc"
    ELSE IF a[1] = "--assoc-default" THEN "--assoc-default"
    ELSE IF a[1] = "--reset" THEN "--reset"
    ELSE "unexpected"

\* The tokens each iteration of filter_accounts' loop consumes, in order, up
\* to the iteration that raises.
RECURSIVE filter_accounts_steps(_)
filter_accounts_steps(a) ==
    IF ~(Len(a) > 0) THEN <<>>
    ELSE IF filter_branch(a) \in {"--include-only", "--exclude", "--assoc"}
    THEN <<Take(a, 2)>> \o filter_accounts_steps(Drop(a, 2))
    ELSE IF filter_branch(a) \in {"--assoc-default", "--reset"}
    THEN <<Take(a, 1)>> \o filter_accounts_steps(Drop(a, 1))
    ELSE <<>>

\* The record of a loop step: the operation, its argument, the buffer and the
\* result it started from, and the operations executed so far, this one included.
Step(op, arg) ==
    [op |-> op, arg |-> arg, buf |-> acc_buf, result |-> result,
     done |-> Append(last.done, op)]
NoStep == [op |-> "none", arg |-> "", buf |-> <<>>, result |-> <<>>, done |-> <<>>]

FilterLoop == fpc = "loop" /\ Len(argv) > 0

IncludeOnly ==
    /\ FilterLoop /\ filter_branch(argv) = "--include-only"
    /\ acc_buf' = _buf_include_only(acc_buf, argv[2])
    /\ argv' = Drop(argv, 2)
    /\ last' = Step("--include-only", argv[2])
    /\ UNCHANGED <<filters, accounts, default_role, result, fpc, fexc>>
    /\ UNCHANGED <<pvars, evars, rvars>>

Exclude ==
    /\ FilterLoop /\ filter_branch(argv) = "--exclude"
    /\ acc_buf' = _buf_exclude(acc_buf, argv[2])
    /\ argv' = Drop(argv, 2)
    /\ last' = Step("--exclude", argv[2])
    /\ UNCHANGED <<filters, accounts, default_role, result, fpc, fexc>>
    /\ UNCHANGED <<pvars, evars, rvars>>

\* Variant of the --assoc branch without `acc_buf = []`.
Assoc_keeps_buffer ==
    /\ FilterLoop /\ filter_branch(argv) = "--assoc"
    /\ result' = result \o _result_associate(acc_buf, argv[2])
    /\ argv' = Drop(argv, 2)
    /\ last' = Step("--assoc", argv[2])
    /\ UNCHANGED <<filters, accounts, default_role, acc_buf, fpc, fexc>>
    /\ UNCHANGED <<pvars, evars, rvars>>

Assoc ==
    /\ FilterLoop /\ filter_branch(argv) = "--assoc"
    /\ result' = result \o _result_associate(acc_buf, argv[2])
    /\ acc_buf' = <<>>
    /\ argv' = Drop(argv, 2)
    /\ last' = Step("--assoc", argv[2])
    /\ UNCHANGED <<filters, accounts, default_role, fpc, fexc>>
    /\ UNCHANGED <<pvars, evars, rvars>>

\* Variant of the --assoc-default branch that assigns the new associations to
\* result instead of appending them (result = instead of result +=).
AssocDefault_replaces_result ==
    /\ FilterLoop /\ filter_branch(argv) = "--assoc-default"
    /\ result' = _result_associate(acc_buf, default_role)
    /\ acc_buf' = <<>>
    /\ argv' = Drop(argv, 1)
    /\ last' = Step("--assoc-default", "")
    /\ UNCHANGED <<filters, accounts, default_role, fpc, fexc>>
    /\ UNCHANGED <<pvars, evars, rvars>>

AssocDefault ==
    /\ FilterLoop /\ filter_branch(argv) = "--assoc-default"
    /\ result' = result \o _result_associate(acc_buf, default_role)
    /\ acc_buf' = <<>>
    /\ argv' = Drop(argv, 1)
    /\ last' = Step("--assoc-default", "")
    /\ UNCHANGED <<filters, accounts, default_role, fpc, fexc>>
    /\ UNCHANGED <<pvars, evars, rvars>>

\* Variant of the --reset branch that refills the buffer with what the last
\* association step drained instead of the full account list.
Reset_to_drained ==
    /\ FilterLoop /\ filter_branch(argv) = "--reset"
    /\ acc_buf' = IF last.op \in {"--assoc", "--assoc-default"} THEN last.buf ELSE accounts
    /\ argv' = Drop(argv, 1)
    /\ last' = Step("--reset", "")
    /\ UNCHANGED <<filters, accounts, default_role, result, fpc, fexc>>
    /\ UNCHANGED <<pvars, evars, rvars>>

Reset ==
    /\ FilterLoop /\ filter_branch(argv) = "--reset"
    /\ acc_buf' = accounts
    /\ argv' = Drop(argv, 1)
    /\ last' = Step("--reset", "")
    /\ UNCHANGED <<filters, accounts, default_role, result, fpc, fexc>>
    /\ UNCHANGED <<pvars, evars, rvars>>

RaiseMissingFilterParameter ==
    /\ FilterLoop /\ filter_branch(argv) = "missing"
    /\ fpc' = "raised"
    /\ fexc' = MissingFilterParameter(argv[1])
    /\ last' = Step("raise", argv[1])
    /\ UNCHANGED <<filters, accounts, default_role, argv, acc_buf, result>>
    /\ UNCHANGED <<pvars, evars, rvars>>

RaiseUnexpectedFilterArgument ==
    /\ FilterLoop /\ filter_branch(argv) = "unexpected"
    /\ fpc' = "raised"
    /\ fexc' = UnexpectedFilterArgument(argv[1])
    /\ last' = Step("raise", argv[1])
    /\ UNCHANGED <<filters, accounts, default_role, argv, acc_buf, result>>
    /\ UNCHANGED <<pvars, evars, rvars>>

\* result += _result_associate(acc_buf, default_role); return result
FilterReturn ==
    /\ fpc = "loop" /\ ~(Len(argv) > 0)
    /\ result' = result \o _result_associate(acc_buf, default_role)
    /\ fpc' = "returned"
    /\ last' = Step("final", "")
    /\ UNCHANGED <<filters, accounts, default_role, argv, acc_buf, fexc>>
    /\ UNCHANGED <<pvars, evars, rvars>>

\* filter_accounts as a function of its parameters: the while loop with its
\* locals as parameters, then the final association with the default role.
\* [exc, argv, acc_buf, result]
RECURSIVE filter_accounts_loop(_, _, _, _, _)
filter_accounts_loop(a, buf, res, accts, role) ==
    IF ~(Len(a) > 0)
    THEN [exc |-> NoExc, argv |-> a, acc_buf |-> buf,
          result |-> res \o _result_associate(buf, role)]
    ELSE IF filter_branch(a) = "missing"
    THEN [exc |-> MissingFilterParameter(a[1]), argv |-> a, acc_buf |-> buf, result |-> res]
    ELSE IF filter_branch(a) = "--include-only"
    THEN filter_accounts_loop(Drop(a, 2), _buf_include_only(buf, a[2]), res, accts, role)
    ELSE IF filter_branch(a) = "--exclude"
    THEN filter_accounts_loop(Drop(a, 2), _buf_exclude(buf, a[2]), res, accts, role)
    ELSE IF filter_branch(a) = "--assoc"
    THEN filter_accounts_loop(Drop(a, 2), <<>>, res \o _result_associate(buf, a[2]),
                              accts, role)
    ELSE IF filter_branch(a) = "--assoc-default"
    THEN filter_accounts_loop(Drop(a, 1), <<>>, res \o _result_associate(buf, role),
                              accts, role)
    ELSE IF filter_branch(a) = "--reset"
    THEN filter_accounts_loop(Drop(a, 1), accts, res, accts, role)
    ELSE [exc |-> UnexpectedFilterArgument(a[1]), argv |-> a, acc_buf |-> buf, result |-> res]

filter_accounts(fs, accts, role) == filter_accounts_loop(fs, accts, <<>>, accts, role)

(***************************************************************************)
(* ssosession.py: the session the executor is given                        *)
(***************************************************************************)
\* functools.lru_cache's default maxsize
LruMaxSize == 128

\* response["roleCredentials"] for an answered request
RoleCredentials(account_id, role_name) ==
    [accessKeyId     |-> <<"accessKeyId", account_id, role_name>>,
     secretAccessKey |-> <<"secretAccessKey", account_id, role_name>>,
     sessionToken    |-> <<"sessionToken", account_id, role_name>>]

\* Variant of get_credentials that asks for the role of the first account of
\* the organisation, whatever account_id is.
get_credentials_first_account(answer, account_id, role_name) ==
    IF answer = "ok"
    THEN [raised |-> FALSE, value |-> Some(RoleCredentials("111", role_name))]
    ELSE [raised |-> TRUE, value |-> None]

\* Variant of get_credentials that returns None whenever the service raises.
get_credentials_none_on_raise(answer, account_id, role_name) ==
    IF answer = "ok"
    THEN [raised |-> FALSE, value |-> Some(RoleCredentials(account_id, role_name))]
    ELSE [raised |-> FALSE, value |-> None]

\* SsoSession.get_credentials.  `answer` is what the SSO service does with
\* get_role_credentials: "ok" is a response, "forbidden" and "error" are
\* exceptions of the client.  Nothing is caught and response["roleCredentials"]
\* is returned, so the call returns a dict or raises: it never returns None.
\* [raised, value]
get_credentials(answer, account_id, role_name) ==
    IF answer = "ok"
    THEN [raised |-> FALSE, value |-> Some(RoleCredentials(account_id, role_name))]
    ELSE [raised |-> TRUE, value |-> None]

CacheIds(c) == {c[k][1] : k \in 1..Len(c)}
CacheGet(c, account_id) == (CHOOSE k \in 1..Len(c) : c[k][1] = account_id)

\* SsoSession.get_account_roles under @lru_cache: a hit returns the stored
\* list and makes the entry the most recent one; a miss asks the service,
\* stores the list and evicts the oldest entry beyond maxsize; an exception
\* is not stored.  [raised, called, roles, cache]
get_account_roles(c, account_id, answer, world) ==
    IF account_id \in CacheIds(c)
    THEN LET k == CacheGet(c, account_id) IN
         [raised |-> FALSE, called |-> FALSE, roles |-> c[k][2],
          cache |-> Append(SelectSeq(c, LAMBDA e : e[1] # account_id), c[k])]
    ELSE IF answer = "ok"
    THEN LET grown == Append(c, <<account_id, world[account_id]>>) IN
         [raised |-> FALSE, called |-> TRUE, roles |-> world[account_id],
          cache |-> IF Len(grown) > LruMaxSize THEN Tail(grown) ELSE grown]
    ELSE [raised |-> TRUE, called |-> TRUE, roles |-> <<>>, cache |-> c]

(***************************************************************************)
(* executor.py                                                             *)
(***************************************************************************)
\* sys.stdout.write(text)
Text(t) == [kind |-> "text", text |-> t]
\* json.dump(value, sys.stdout)
Json(v) == [kind |-> "json", value |-> v]

RoleNames(roles) == {roles[k].roleName : k \in 1..Len(roles)}

\* Variant of the separator logic that forgets `first`.
separator_always(is_first) == <<Text(",")>>

\* if first: first = False / else: sys.stdout.write(",")
separator(is_first) == IF is_first THEN <<>> ELSE <<Text(",")>>

\* Variant of the role test of list_associations that keeps every association
\* of an account that has any role.
role_is_listed_any(assoc, roles) == roles # <<>>

\* not (assoc["role"] not in [role["roleName"] for role in roles])
role_is_listed(assoc, roles) == assoc.role \in RoleNames(roles)

ExecLoop(m) == mode = m /\ epc = "loop" /\ pos < Len(associations)
ExecEnd(m) == mode = m /\ epc = "loop" /\ ~(pos < Len(associations))

ListOpen ==
    /\ mode = "list" /\ epc = "start"
    /\ out' = Append(out, Text("["))
    /\ first' = TRUE
    /\ epc' = "loop"
    /\ UNCHANGED <<mode, associations, command_args, account_roles, pos, answers,
                   cache, role_calls, flushed, os_environ, runs>>
    /\ UNCHANGED <<pvars, fvars, rvars>>

\* Variant of flush that leaves the last write in the buffer.
flush_before_last_write(written) == Len(written) - 1

\* sys.stdout.flush(): the number of writes pushed out, all of them.
flush(written) == Len(written)

\* One iteration of the for loop of list_associations.
ListStep ==
    /\ ExecLoop("list")
    /\ \E answer \in {"ok", "error"} :
        LET assoc == associations[pos + 1]
            r == get_account_roles(cache, assoc.accountId, answer, account_roles) IN
        /\ pos' = pos + 1
        /\ cache' = r.cache
        /\ role_calls' = IF r.called
                         THEN [role_calls EXCEPT ![assoc.accountId] = @ + 1]
                         ELSE role_calls
        /\ answers' = Append(answers, IF r.called THEN answer ELSE "cached")
        /\ IF r.raised
           THEN /\ epc' = "aborted"
                /\ UNCHANGED <<first, out, flushed>>
           ELSE IF ~role_is_listed(assoc, r.roles)
           THEN UNCHANGED <<epc, first, out, flushed>>
           ELSE /\ out' = out \o separator(first) \o <<Json(assoc)>>
                /\ first' = FALSE
                /\ flushed' = flush(out')
                /\ UNCHANGED epc
    /\ UNCHANGED <<mode, associations, command_args, account_roles, os_environ, runs>>
    /\ UNCHANGED <<pvars, fvars, rvars>>

ListClose ==
    /\ ExecEnd("list")
    /\ out' = Append(out, Text("]\n"))
    /\ epc' = "done"
    /\ UNCHANGED <<mode, associations, command_args, account_roles, pos, first, answers,
                   cache, role_calls, flushed, os_environ, runs>>
    /\ UNCHANGED <<pvars, fvars, rvars>>

FetchOpen ==
    /\ mode = "creds" /\ epc = "start"
    /\ out' = Append(out, Text("["))
    /\ first' = TRUE
    /\ epc' = "loop"
    /\ UNCHANGED <<mode, associations, command_args, account_roles, pos, answers,
                   cache, role_calls, flushed, os_environ, runs>>
    /\ UNCHANGED <<pvars, fvars, rvars>>

CredentialsItem(assoc, credentials) ==
    [accountName |-> assoc.accountName, accountId |-> assoc.accountId,
     role |-> assoc.role, accessKeyId |-> credentials.accessKeyId,
     secretAccessKey |-> credentials.secretAccessKey,
     sessionToken |-> credentials.sessionToken]

\* One iteration of the for loop of fetch_credentials.
FetchStep ==
    /\ ExecLoop("creds")
    /\ \E answer \in {"ok", "forbidden", "error"} :
        LET assoc == associations[pos + 1]
            r == get_credentials(answer, assoc.accountId, assoc.role) IN
        /\ pos' = pos + 1
        /\ answers' = Append(answers, answer)
        /\ IF r.raised
           THEN /\ epc' = "aborted"
                /\ UNCHANGED <<first, out, flushed>>
           ELSE IF r.value = None
           THEN UNCHANGED <<epc, first, out, flushed>>
           ELSE /\ out' = out \o separator(first)
                            \o <<Json(CredentialsItem(assoc, r.value[1]))>>
                /\ first' = FALSE
                /\ flushed' = flush(out')
                /\ UNCHANGED epc
    /\ UNCHANGED <<mode, associations, command_args, account_roles, cache, role_calls,
                   os_environ, runs>>
    /\ UNCHANGED <<pvars, fvars, rvars>>

FetchClose ==
    /\ ExecEnd("creds")
    /\ out' = Append(out, Text("]\n"))
    /\ epc' = "done"
    /\ UNCHANGED <<mode, associations, command_args, account_roles, pos, first, answers,
                   cache, role_calls, flushed, os_environ, runs>>
    /\ UNCHANGED <<pvars, fvars, rvars>>

RunOpen ==
    /\ mode = "exec" /\ epc = "start"
    /\ out' = Append(out, Text("["))
    /\ first' = TRUE
    /\ epc' = "loop"
    /\ UNCHANGED <<mode, associations, command_args, account_roles, pos, answers,
                   cache, role_calls, flushed, os_environ, runs>>
    /\ UNCHANGED <<pvars, fvars, rvars>>

EnvNames == {"PATH", "AWS_ACCESS_KEY_ID", "AWS_SECRET_ACCESS_KEY", "AWS_SESSION_TOKEN"}

\* environ = os.environ.copy(); environ[...] = credentials[...]
child_environ(ambient, credentials) ==
    [ambient EXCEPT !["AWS_ACCESS_KEY_ID"] = credentials.accessKeyId,
                    !["AWS_SECRET_ACCESS_KEY"] = credentials.secretAccessKey,
                    !["AWS_SESSION_TOKEN"] = credentials.sessionToken]

\* Variant of os_environ_after in which environ is os.environ itself, not a copy.
os_environ_not_copied(ambient, environ) == environ

\* os.environ once run_subprocess has filled in `environ`: environ is a copy
\* (os.environ.copy()), so its three assignments do not reach os.environ.
os_environ_after(ambient, environ) == ambient

\* Bytes that are not UTF-8
Undecodable == "\\xff"

\* bytes.decode("utf-8"): [raised, value]
decode(bytes) == [raised |-> bytes = Undecodable, value |-> bytes]

\* What subprocess.run(command_args, ...) can do: raise (no such program, or
\* no program at all), or return a CompletedProcess.
Completed(code, o, e) == [kind |-> "completed", returncode |-> code, stdout |-> o, stderr |-> e]
SpawnError == [kind |-> "raise", returncode |-> 0, stdout |-> "", stderr |-> ""]
SubprocessOutcomes(args) ==
    IF args = <<>> THEN {SpawnError}
    ELSE {SpawnError, Completed(0, "out", ""), Completed(1, "", "err"),
          Completed(0, Undecodable, ""), Completed(1, "", Undecodable)}

SubprocessItem(assoc, completed) ==
    [accountName |-> assoc.accountName, accountId |-> assoc.accountId,
     role |-> assoc.role, exitCode |-> completed.returncode,
     stdout |-> decode(completed.stdout).value,
     stderr |-> decode(completed.stderr).value]

\* One iteration of the for loop of run_sequence, run_subprocess included.
RunStep ==
    /\ ExecLoop("exec")
    /\ \E answer \in {"ok", "forbidden", "error"} :
       \E outcome \in SubprocessOutcomes(command_args) :
        LET assoc == associations[pos + 1]
            r == get_credentials(answer, assoc.accountId, assoc.role) IN
        /\ pos' = pos + 1
        /\ answers' = Append(answers, answer)
        /\ IF r.raised
           THEN /\ epc' = "aborted"
                /\ UNCHANGED <<first, out, flushed, runs, os_environ>>
           ELSE IF r.value = None
           THEN UNCHANGED <<epc, first, out, flushed, runs, os_environ>>
           ELSE /\ first' = FALSE
                /\ runs' = Append(runs, [args |-> command_args, assoc |-> assoc,
                                         ambient |-> os_environ,
                                         env |-> child_environ(os_environ, r.value[1]),
                                         outcome |-> outcome])
                /\ os_environ' = os_environ_after(os_environ,
                                                  child_environ(os_environ, r.value[1]))
                /\ IF \/ outcome.kind = "raise"
                      \/ decode(outcome.stdout).raised
                      \/ decode(outcome.stderr).raised
                   THEN /\ out' = out \o separator(first)
                        /\ epc' = "aborted"
                        /\ UNCHANGED flushed
                   ELSE /\ out' = out \o separator(first)
                                    \o <<Json(SubprocessItem(assoc, outcome))>>
                        /\ flushed' = flush(out')
                        /\ UNCHANGED epc
    /\ UNCHANGED <<mode, associations, command_args, account_roles, cache, role_calls>>
    /\ UNCHANGED <<pvars, fvars, rvars>>

RunClose ==
    /\ ExecEnd("exec")
    /\ out' = Append(out, Text("]\n"))
    /\ epc' = "done"
    /\ UNCHANGED <<mode, associations, command_args, account_roles, pos, first, answers,
                   cache, role_calls, flushed, os_environ, runs>>
    /\ UNCHANGED <<pvars, fvars, rvars>>

(***************************************************************************)
(* The inputs of the model                                                 *)
(***************************************************************************)
ArgTokens == {"--help", "exec", "--profile", "--include-only", "--exclude", "--assoc",
              "--assoc-default", "--reset", "list", "creds", "x"}

FilterTokens == {"--include-only", "--exclude", "--assoc", "--assoc-default", "--reset",
                 "a", "b", "a,b"}

\* The accounts the SSO session can list, in the order the service lists them.
AccountPool ==
    << [accountId |-> "111", accountName |-> "ab", emailAddress |-> "ab@example.com"],
       [accountId |-> "222", accountName |-> "a",  emailAddress |-> "a@example.com"],
       [accountId |-> "333", accountName |-> "b",  emailAddress |-> "b@example.com"] >>

\* The elements of s whose positions are in P, in the order of s.
RECURSIVE PickFrom(_, _, _)
PickFrom(s, P, k) ==
    IF k > Len(s) THEN <<>>
    ELSE (IF k \in P THEN <<s[k]>> ELSE <<>>) \o PickFrom(s, P, k + 1)

AccountLists == {PickFrom(AccountPool, P, 1) : P \in SUBSET (1..Len(AccountPool))}

\* sso_role_name of the profile; a role name may hold a comma.
DefaultRoles == {"R", "a,b"}

AssocAccounts == {AccountPool[1], AccountPool[2]}
AssocRoles == {"a", "b"}
AssocPool == {Association(acct, r) : acct \in AssocAccounts, r \in AssocRoles}
AssocIds == {acct.accountId : acct \in AssocAccounts}

RoleList(account_id, names) ==
    [k \in 1..Len(names) |-> [roleName |-> names[k], accountId |-> account_id]]
RoleWorlds ==
    {[id \in AssocIds |-> RoleList(id, w[id])] :
        w \in [AssocIds -> {<<>>, <<"a">>, <<"b", "a">>}]}

Unset == <<>>
Environments ==
    {[n \in EnvNames |-> IF n = "PATH" THEN <<"/bin">> ELSE Unset],
     [n \in EnvNames |-> IF n = "PATH" THEN <<"/bin">> ELSE <<"ambient", n>>]}

NotParsed == Raised(NoExc)

ParserIdle == sys_argv = <<>> /\ ppc = "idle" /\ parsed = NotParsed

FilterIdle ==
    /\ filters = <<>> /\ accounts = <<>> /\ default_role = ""
    /\ argv = <<>> /\ acc_buf = <<>> /\ result = <<>>
    /\ fpc = "idle" /\ fexc = NoExc /\ last = NoStep

ExecIdle ==
    /\ mode = "idle" /\ associations = <<>> /\ command_args = <<>>
    /\ account_roles = [id \in AssocIds |-> <<>>]
    /\ epc = "idle" /\ pos = 0 /\ first = TRUE /\ out = <<>> /\ answers = <<>>
    /\ cache = <<>> /\ role_calls = [id \in AssocIds |-> 0] /\ flushed = 0
    /\ os_environ = [n \in EnvNames |-> Unset] /\ runs = <<>>

RunIdle == rpc = "idle" /\ sso = "none" /\ run_return = None /\ session_calls = <<>>

(***************************************************************************)
(* SpecParse: parse_arguments applied to every token list of the bounds    *)
(***************************************************************************)
InitParse ==
    /\ sys_argv \in {<<"ssorepeat">> \o t : t \in SeqsUpTo(ArgTokens, MaxArgs)}
    /\ ppc = "call"
    /\ parsed = NotParsed
    /\ FilterIdle
    /\ ExecIdle
    /\ RunIdle

ParseArguments ==
    /\ ppc = "call"
    /\ parsed' = parse_arguments(sys_argv)
    /\ ppc' = parsed'.status
    /\ UNCHANGED sys_argv
    /\ UNCHANGED <<fvars, evars, rvars>>

NextParse == ParseArguments

SpecParse == InitParse /\ [][NextParse]_vars

(***************************************************************************)
(* SpecFilter: filter_accounts run on every filter token list, account     *)
(* list and default role of the bounds                                     *)
(***************************************************************************)
InitFilter ==
    /\ ParserIdle
    /\ filters \in SeqsUpTo(FilterTokens, MaxFilters)
    /\ accounts \in AccountLists
    /\ default_role \in DefaultRoles
    /\ argv = filters
    /\ acc_buf = accounts
    /\ result = <<>>
    /\ fpc = "loop"
    /\ fexc = NoExc
    /\ last = NoStep
    /\ ExecIdle
    /\ RunIdle

NextFilter ==
    \/ IncludeOnly
    \/ Exclude
    \/ Assoc
    \/ AssocDefault
    \/ Reset
    \/ RaiseMissingFilterParameter
    \/ RaiseUnexpectedFilterArgument
    \/ FilterReturn

SpecFilter == InitFilter /\ [][NextFilter]_vars

(***************************************************************************)
(* SpecExec: the three methods of Executor run on every association list   *)
(* of the bounds, against every behaviour of the SSO service and of the    *)
(* child processes                                                         *)
(***************************************************************************)
InitExec ==
    /\ ParserIdle
    /\ FilterIdle
    /\ mode \in {"list", "creds", "exec"}
    /\ associations \in SeqsUpTo(AssocPool, MaxAssocs)
    /\ command_args \in IF mode = "exec" THEN {<<>>, <<"x">>} ELSE {<<>>}
    /\ account_roles \in IF mode = "list" THEN RoleWorlds
                         ELSE {[id \in AssocIds |-> <<>>]}
    /\ os_environ \in IF mode = "exec" THEN Environments
                      ELSE {[n \in EnvNames |-> Unset]}
    /\ epc = "start"
    /\ pos = 0
    /\ first = TRUE
    /\ out = <<>>
    /\ answers = <<>>
    /\ cache = <<>>
    /\ role_calls = [id \in AssocIds |-> 0]
    /\ flushed = 0
    /\ runs = <<>>
    /\ RunIdle

NextExec ==
    \/ ListOpen
    \/ ListStep
    \/ ListClose
    \/ FetchOpen
    \/ FetchStep
    \/ FetchClose
    \/ RunOpen
    \/ RunStep
    \/ RunClose

SpecExec == InitExec /\ [][NextExec]_vars

(***************************************************************************)
(* SpecLru: list_associations on an organisation with about as many        *)
(* accounts as the lru_cache of get_account_roles holds, each account      *)
(* associated with role a and then, after a --reset, with role b           *)
(***************************************************************************)
\* The accounts of an organisation of n accounts, numbered 1..n
NumberedAccounts(n) == [k \in 1..n |-> [accountId |-> k, accountName |-> "a"]]

\* What filter_accounts returns for --assoc a --reset --assoc b: every account
\* with role a, then every account with role b
TwoPasses(accts) ==
    [k \in 1..(2 * Len(accts)) |->
        IF k <= Len(accts) THEN Association(accts[k], "a")
        ELSE Association(accts[k - Len(accts)], "b")]

LruAccountCounts == {1, 2, LruMaxSize, LruMaxSize + 1}

InitLru ==
    /\ ParserIdle
    /\ FilterIdle
    /\ RunIdle
    /\ \E n \in LruAccountCounts :
        /\ associations = TwoPasses(NumberedAccounts(n))
        /\ account_roles = [id \in 1..n |-> RoleList(id, <<"a", "b">>)]
        /\ role_calls = [id \in 1..n |-> 0]
    /\ mode = "list"
    /\ command_args = <<>>
    /\ os_environ = [n \in EnvNames |-> Unset]
    /\ epc = "start"
    /\ pos = 0
    /\ first = TRUE
    /\ out = <<>>
    /\ answers = <<>>
    /\ cache = <<>>
    /\ flushed = 0
    /\ runs = <<>>

NextLru ==
    \/ ListOpen
    \/ ListStep
    \/ ListClose

SpecLru == InitLru /\ [][NextLru]_vars

(***************************************************************************)
(* cli.py: run(), from sys.argv to its return value                        *)
(***************************************************************************)
\* What SsoSession(profile) can do: succeed, raise InvalidSsoProfile itself,
\* or let botocore's ProfileNotFound or TokenRetrievalError through.
SessionErrors == {"InvalidSsoProfile", "ProfileNotFound", "TokenRetrievalError"}
SessionOutcomes == {"ok"} \cup SessionErrors

\* except InvalidArgument / except MissingArgumentParameter, with 2 returned
\* instead of 1.
CliParseFailed_returns_2 ==
    /\ rpc = "parse" /\ ppc = "raised"
    /\ run_return' = Some(2)
    /\ rpc' = "returned"
    /\ UNCHANGED <<sso, session_calls>>
    /\ UNCHANGED <<pvars, fvars, evars>>

\* except InvalidArgument / except MissingArgumentParameter: return 1
CliParseFailed ==
    /\ rpc = "parse" /\ ppc = "raised"
    /\ run_return' = Some(1)
    /\ rpc' = "returned"
    /\ UNCHANGED <<sso, session_calls>>
    /\ UNCHANGED <<pvars, fvars, evars>>

\* Variant of the help branch that comes after the creation of the session.
CliShowHelp_after_session ==
    /\ rpc = "parse" /\ ppc = "returned" /\ parsed.show_help
    /\ session_calls' = Append(session_calls, "SsoSession")
    /\ out' = Append(out, Text("DOCUMENTATION\n"))
    /\ run_return' = Some(0)
    /\ rpc' = "returned"
    /\ UNCHANGED sso
    /\ UNCHANGED <<mode, associations, command_args, account_roles, epc, pos, first,
                   answers, cache, role_calls, flushed, os_environ, runs>>
    /\ UNCHANGED <<pvars, fvars>>

\* if show_help: print(DOCUMENTATION); return 0
CliShowHelp ==
    /\ rpc = "parse" /\ ppc = "returned" /\ parsed.show_help
    /\ out' = Append(out, Text("DOCUMENTATION\n"))
    /\ run_return' = Some(0)
    /\ rpc' = "returned"
    /\ UNCHANGED <<sso, session_calls>>
    /\ UNCHANGED <<mode, associations, command_args, account_roles, epc, pos, first,
                   answers, cache, role_calls, flushed, os_environ, runs>>
    /\ UNCHANGED <<pvars, fvars>>

\* session = SsoSession(profile=profile_arg), with its three except clauses
CliSession ==
    /\ rpc = "parse" /\ ppc = "returned" /\ ~parsed.show_help
    /\ session_calls' = Append(session_calls, "SsoSession")
    /\ \E outcome \in SessionOutcomes :
        /\ sso' = outcome
        /\ IF outcome \in SessionErrors
           THEN run_return' = Some(2) /\ rpc' = "returned"
           ELSE run_return' = run_return /\ rpc' = "session"
    /\ UNCHANGED <<pvars, fvars, evars>>

\* What session.get_accounts() and the profile's sso_role_name can be
CliAccountLists == {<<>>, Take(AccountPool, 2)}
CliDefaultRoles == {"a"}

\* associations = filter_accounts(filter_args, session.get_accounts(),
\*                               str(session.get_default_role_name()))
\* Nothing catches what get_accounts or filter_accounts raise.
CliFilterAccounts ==
    /\ rpc = "session"
    /\ \E answer \in {"ok", "error"} :
       \E accts \in CliAccountLists : \E role \in CliDefaultRoles :
        IF answer = "error"
        THEN /\ rpc' = "uncaught"
             /\ UNCHANGED fvars
        ELSE LET r == filter_accounts(parsed.filters, accts, role) IN
             /\ filters' = parsed.filters
             /\ accounts' = accts
             /\ default_role' = role
             /\ argv' = r.argv
             /\ acc_buf' = r.acc_buf
             /\ result' = r.result
             /\ fexc' = r.exc
             /\ fpc' = IF r.exc = NoExc THEN "returned" ELSE "raised"
             /\ rpc' = IF r.exc = NoExc THEN "filter" ELSE "uncaught"
             /\ UNCHANGED last
    /\ session_calls' = Append(session_calls, "get_accounts")
    /\ UNCHANGED <<sso, run_return>>
    /\ UNCHANGED <<pvars, evars>>

\* Variant of CliDispatch in which an empty command_args goes to
\* fetch_credentials.
CliDispatch_empty_is_creds ==
    /\ rpc = "filter"
    /\ associations' = result
    /\ IF Len(parsed.commands) > 0 /\ parsed.commands[1] = "list"
       THEN mode' = "list" /\ command_args' = <<>> /\ epc' = "start"
       ELSE IF Len(parsed.commands) = 0 \/ parsed.commands[1] = "creds"
       THEN mode' = "creds" /\ command_args' = <<>> /\ epc' = "start"
       ELSE IF parsed.commands[1] = "exec"
       THEN mode' = "exec" /\ command_args' = Drop(parsed.commands, 1) /\ epc' = "start"
       ELSE mode' = "idle" /\ command_args' = <<>> /\ epc' = "done"
    /\ rpc' = "executor"
    /\ UNCHANGED <<account_roles, pos, first, out, answers, cache, role_calls, flushed,
                   os_environ, runs>>
    /\ UNCHANGED <<sso, run_return, session_calls>>
    /\ UNCHANGED <<pvars, fvars>>

\* executor = Executor(session) and the if/elif chain on command_args, up to
\* the call of the executor's method.
CliDispatch ==
    /\ rpc = "filter"
    /\ associations' = result
    /\ IF Len(parsed.commands) = 0 \/ parsed.commands[1] = "list"
       THEN mode' = "list" /\ command_args' = <<>> /\ epc' = "start"
       ELSE IF parsed.commands[1] = "creds"
       THEN mode' = "creds" /\ command_args' = <<>> /\ epc' = "start"
       ELSE IF parsed.commands[1] = "exec"
       THEN mode' = "exec" /\ command_args' = Drop(parsed.commands, 1) /\ epc' = "start"
       ELSE mode' = "idle" /\ command_args' = <<>> /\ epc' = "done"
    /\ rpc' = "executor"
    /\ UNCHANGED <<account_roles, pos, first, out, answers, cache, role_calls, flushed,
                   os_environ, runs>>
    /\ UNCHANGED <<sso, run_return, session_calls>>
    /\ UNCHANGED <<pvars, fvars>>

\* The executor's method returned: return 0
CliReturn ==
    /\ rpc = "executor" /\ epc = "done"
    /\ run_return' = Some(0)
    /\ rpc' = "returned"
    /\ UNCHANGED <<sso, session_calls>>
    /\ UNCHANGED <<pvars, fvars, evars>>

\* The executor's method raised: nothing catches it, run() does not return.
CliUncaught ==
    /\ rpc = "executor" /\ epc = "aborted"
    /\ rpc' = "uncaught"
    /\ UNCHANGED <<sso, run_return, session_calls>>
    /\ UNCHANGED <<pvars, fvars, evars>>

(***************************************************************************)
(* SpecCli: run() on every command line of the bounds, against every       *)
(* behaviour of the session, the SSO service and the child processes       *)
(***************************************************************************)
CliTokens == {"--help", "--profile", "--include-only", "--assoc", "list", "creds", "exec",
              "a", "a,b"}

CliRoleWorlds ==
    {[id \in AssocIds |-> <<>>],
     [id \in AssocIds |-> IF id = "111" THEN RoleList(id, <<"a">>)
                                        ELSE RoleList(id, <<"b", "a">>)]}

InitCli ==
    /\ sys_argv \in {<<"ssorepeat">> \o t : t \in SeqsUpTo(CliTokens, MaxCliArgs)}
    /\ ppc = "call"
    /\ parsed = NotParsed
    /\ FilterIdle
    /\ mode = "idle" /\ associations = <<>> /\ command_args = <<>>
    /\ account_roles \in CliRoleWorlds
    /\ os_environ = [n \in EnvNames |-> IF n = "PATH" THEN <<"/bin">> ELSE <<"ambient", n>>]
    /\ epc = "idle" /\ pos = 0 /\ first = TRUE /\ out = <<>> /\ answers = <<>>
    /\ cache = <<>> /\ role_calls = [id \in AssocIds |-> 0] /\ flushed = 0
    /\ runs = <<>>
    /\ rpc = "parse"
    /\ sso = "none"
    /\ run_return = None
    /\ session_calls = <<>>

NextCli ==
    \/ ParseArguments
    \/ CliParseFailed
    \/ CliShowHelp
    \/ CliSession
    \/ CliFilterAccounts
    \/ CliDispatch
    \/ ListOpen
    \/ ListStep
    \/ ListClose
    \/ FetchOpen
    \/ FetchStep
    \/ FetchClose
    \/ RunOpen
    \/ RunStep
    \/ RunClose
    \/ CliReturn
    \/ CliUncaught

SpecCli == InitCli /\ [][NextCli]_vars

(***************************************************************************)
(* Properties of parse_arguments (SpecParse)                               *)
(***************************************************************************)
\* The tokens after the program name
Tokens == Drop(sys_argv, 1)

HasHelp(a) == \E h \in 1..Len(a) : a[h] = "--help"

\* Some --help has no exec before it or stands right after an exec.
AnyHelpRule(a) ==
    \E h \in 1..Len(a) :
        /\ a[h] = "--help"
        /\ \/ \A e \in 1..(h - 1) : a[e] # "exec"
           \/ h > 1 /\ a[h - 1] = "exec"

\* The first --help has no exec before it or stands right after the first exec.
FirstHelpRule(a) ==
    \E h \in 1..Len(a) :
        /\ a[h] = "--help"
        /\ \A j \in 1..(h - 1) : a[j] # "--help"
        /\ \/ \A e \in 1..(h - 1) : a[e] # "exec"
           \/ /\ h > 1
              /\ a[h - 1] = "exec"
              /\ \A e \in 1..(h - 2) : a[e] # "exec"

ShowsHelp == parsed.status = "returned" /\ parsed.show_help

\* C1 as stated: showHelp is true exactly when the tokens hold a --help that
\* has no exec before it or stands immediately after an exec token.
C1_AsStated == ppc # "call" => (ShowsHelp <=> AnyHelpRule(Tokens))

\* C1, amended: showHelp is true exactly when the tokens hold a --help and
\* the first --help has no exec before it or stands immediately after the
\* first exec token; in every other case showHelp is false.
C1_FirstHelpFirstExec == ppc # "call" => (ShowsHelp <=> FirstHelpRule(Tokens))

\* C1 witness: help shown for a --help right after exec, with tokens around.
C1_Witness ==
    /\ ppc = "returned" /\ parsed.show_help
    /\ \E h \in 2..Len(Tokens) : Tokens[h] = "--help" /\ Tokens[h - 1] = "exec"
    /\ Len(Tokens) >= 3

\* The filter segment grammar: pairs and single flags, nothing else.
RECURSIVE IsFilterSegment(_)
IsFilterSegment(s) ==
    \/ s = <<>>
    \/ /\ Len(s) >= 2
       /\ s[1] \in {"--include-only", "--exclude", "--assoc"}
       /\ IsFilterSegment(Drop(s, 2))
    \/ /\ Len(s) >= 1
       /\ s[1] \in {"--assoc-default", "--reset"}
       /\ IsFilterSegment(Drop(s, 1))

\* The exec at position e starts the command segment: what stands before it
\* is an optional --profile pair followed by a filter segment.
CommandExecAt(a, e) ==
    /\ a[e] = "exec"
    /\ LET before == Take(a, e - 1) IN
       \/ IsFilterSegment(before)
       \/ /\ Len(before) >= 2
          /\ before[1] = "--profile"
          /\ IsFilterSegment(Drop(before, 2))

\* A --help after an exec token, not immediately after it
HelpWayAfterExec(a) ==
    \E e \in 1..Len(a) : \E h \in (e + 2)..Len(a) : a[e] = "exec" /\ a[h] = "--help"

\* commands is a suffix of the tokens that holds a --help
ForwardsHelp(a, commands) ==
    /\ HasHelp(commands)
    /\ \E k \in 1..Len(a) : commands = Drop(a, k - 1)

\* C2 as stated: whenever a --help is present and is not the program's help
\* request (it comes after an exec, not immediately after it), parse_arguments
\* does not fail, returns showHelp = false and forwards --help in commandTokens.
C2_AsStated ==
    (ppc # "call" /\ HasHelp(Tokens) /\ ~FirstHelpRule(Tokens) /\ HelpWayAfterExec(Tokens))
        => /\ parsed.status = "returned"
           /\ ~parsed.show_help
           /\ ForwardsHelp(Tokens, parsed.commands)

\* C2, amended: when the help rule does not fire and an exec token starts the
\* command segment (the tokens before it are an optional --profile pair and
\* well-formed filter tokens), parse_arguments does not fail, returns
\* showHelp = false, and commandTokens is exactly the tokens from that exec to
\* the end, so every --help after that exec is forwarded in its place.
C2_ExecForwardsRest ==
    ppc # "call" =>
        \A e \in 1..Len(Tokens) :
            (CommandExecAt(Tokens, e) /\ ~FirstHelpRule(Tokens))
                => /\ parsed.status = "returned"
                   /\ ~parsed.show_help
                   /\ parsed.commands = Drop(Tokens, e - 1)

\* C2 witness: a returned parse whose command is exec and holds a --help,
\* with a filter segment before the exec.
C2_Witness ==
    /\ ppc = "returned" /\ ~parsed.show_help
    /\ Len(parsed.filters) > 0
    /\ Len(parsed.commands) >= 3
    /\ parsed.commands[1] = "exec"
    /\ parsed.commands[Len(parsed.commands)] = "--help"

\* An optional --profile pair followed by a filter segment
IsProfileAndFilters(s) ==
    \/ IsFilterSegment(s)
    \/ Len(s) >= 2 /\ s[1] = "--profile" /\ IsFilterSegment(Drop(s, 2))

\* The last token is a pair flag that the parser reaches with nothing after
\* it: --profile as the only token, or a filter pair flag after an optional
\* --profile pair and a filter segment.
BareFlagReached(a) ==
    /\ a # <<>>
    /\ \/ a = <<"--profile">>
       \/ /\ a[Len(a)] \in {"--include-only", "--exclude", "--assoc"}
          /\ IsProfileAndFilters(Take(a, Len(a) - 1))

\* C11: when the help rule does not fire and a pair flag is reached as the
\* last token with no value after it, parse_arguments fails with
\* MissingArgumentParameter carrying that flag's name.
C11_BareFlagIsMissingParameter ==
    (ppc # "call" /\ ~FirstHelpRule(Tokens) /\ BareFlagReached(Tokens))
        => parsed = Raised(MissingArgumentParameter(Tokens[Len(Tokens)]))

\* C11 witness: a filter pair flag left bare after a --profile pair and a
\* filter token has raised MissingArgumentParameter.
C11_Witness ==
    /\ ppc = "raised"
    /\ parsed.exc.type = "MissingArgumentParameter"
    /\ parsed.exc.arg \in {"--include-only", "--exclude", "--assoc"}
    /\ Len(Tokens) = 4
    /\ Tokens[1] = "--profile"

FilterFlags == {"--include-only", "--exclude", "--assoc", "--assoc-default", "--reset"}

\* The profile, filter and command segments take exactly the first k tokens
\* of a and leave tokens behind: a --profile pair if a starts with --profile,
\* then the longest filter segment, then one token if it is list or creds
\* (an exec would take everything that is left).
SegmentsEndAt(a, k) ==
    \E p \in {0, 2} : \E f \in 0..Len(a) : \E c \in {0, 1} :
        /\ k = p + f + c
        /\ k < Len(a)
        /\ p = 2 <=> a[1] = "--profile"
        /\ IsFilterSegment(SubSeq(a, p + 1, p + f))
        /\ a[p + f + 1] \notin FilterFlags
        /\ a[p + f + 1] # "exec"
        /\ c = 1 <=> a[p + f + 1] \in {"list", "creds"}

\* C12: when tokens remain after the profile, filter and command segments,
\* parse_arguments fails with InvalidArgument(token, position): the first
\* unconsumed token and its 1-based position among the tokens after the
\* program name.  A --profile that is not the first token is such a leftover.
C12_LeftoverIsInvalidArgument ==
    (ppc # "call" /\ ~FirstHelpRule(Tokens)) =>
        \A k \in 0..(Len(Tokens) - 1) :
            SegmentsEndAt(Tokens, k)
                => parsed = Raised(InvalidArgument(Tokens[k + 1], k + 1))

\* C12 witness: a --profile after two filter tokens has been rejected as the
\* invalid argument at position 3.
C12_Witness ==
    /\ ppc = "raised"
    /\ parsed.exc = InvalidArgument("--profile", 3)
    /\ SegmentsEndAt(Tokens, 2)
    /\ Len(Tokens) = 4

(***************************************************************************)
(* Properties of the Executor (SpecExec)                                   *)
(***************************************************************************)
\* The values json.dump wrote, in order
JsonValues(o) ==
    LET items == SelectSeq(o, LAMBDA w : w.kind = "json") IN
    [k \in 1..Len(items) |-> items[k].value]

\* "[", the items with "," before each but the first, "]\n"
RECURSIVE Separated(_)
Separated(items) ==
    IF items = <<>> THEN <<>>
    ELSE IF Len(items) = 1 THEN <<Json(items[1])>>
    ELSE Separated(Take(items, Len(items) - 1)) \o <<Text(","), Json(items[Len(items)])>>

JsonArray(items) == <<Text("[")>> \o Separated(items) \o <<Text("]\n")>>

\* The association's role is in the role list the service has for its account.
RoleExists(assoc) == assoc.role \in RoleNames(account_roles[assoc.accountId])

\* Associations the loop has taken and finished with (the one whose
\* collaborator call raised is taken, not finished).
Finished == IF epc = "aborted" THEN pos - 1 ELSE pos

AccountRoleOf(item) ==
    [accountName |-> item.accountName, accountId |-> item.accountId, role |-> item.role]

NotForbidden(k) == answers[k] # "forbidden"

\* The associations among the first n whose answer was not "forbidden"
RECURSIVE NonForbidden(_)
NonForbidden(n) ==
    IF n = 0 THEN <<>>
    ELSE NonForbidden(n - 1) \o (IF NotForbidden(n) THEN <<associations[n]>> ELSE <<>>)

\* C3 as stated: in creds and exec modes a forbidden answer never aborts the
\* run, and a completed run has emitted one item per association that was
\* not answered "forbidden", in association order.
C3_ForbiddenIsSkipped ==
    mode \in {"creds", "exec"} =>
        /\ (epc = "aborted" => answers[Len(answers)] # "forbidden")
        /\ (epc = "done" =>
                /\ Len(answers) = Len(associations)
                /\ LET items == JsonValues(out) IN
                   [k \in 1..Len(items) |-> AccountRoleOf(items[k])]
                       = NonForbidden(Len(associations)))

\* The number of associations a completed run emitted an item for: in list
\* mode those whose role exists, in creds and exec modes those that got
\* credentials.
Emitted ==
    IF mode = "list"
    THEN Len(SelectSeq(associations, RoleExists))
    ELSE Cardinality({k \in 1..Len(answers) : answers[k] = "ok"})

\* C4: in each mode a run that completes has written exactly "[", the emitted
\* items with "," before each but the first, and "]\n"; nothing was written
\* for a skipped association, and with no item the output is "[" "]\n".
C4_OutputIsJsonArray ==
    epc = "done" =>
        /\ out = JsonArray(JsonValues(out))
        /\ Len(JsonValues(out)) = Emitted
        /\ (Emitted = 0 => out = <<Text("["), Text("]\n")>>)

\* C4 witness: a completed list run that skipped its first association and
\* emitted the two after it.
C4_Witness ==
    /\ mode = "list" /\ epc = "done"
    /\ Len(associations) = 3
    /\ ~RoleExists(associations[1])
    /\ RoleExists(associations[2]) /\ RoleExists(associations[3])
    /\ Len(out) = 5

\* C5: in list mode the items emitted are exactly the associations, among
\* those finished, whose role is in the role list of their account, in
\* association order; a completed run has finished them all.
C5_ListEmitsExistingRoles ==
    mode = "list" =>
        /\ epc \in {"loop", "done", "aborted"} =>
              JsonValues(out) = SelectSeq(Take(associations, Finished), RoleExists)
        /\ epc = "done" => Finished = Len(associations)

\* C5 witness: a completed list run that kept an association and dropped
\* another one of an account that has roles.
C5_Witness ==
    /\ mode = "list" /\ epc = "done"
    /\ \E i, j \in 1..Len(associations) :
        /\ RoleExists(associations[i])
        /\ ~RoleExists(associations[j])
        /\ account_roles[associations[j].accountId] # <<>>

(***************************************************************************)
(* Properties of filter_accounts (SpecFilter)                              *)
(***************************************************************************)
\* One association per account, each with the whole role name
OnePerAccount(buf, role_name) == [k \in 1..Len(buf) |-> Association(buf[k], role_name)]

\* C6 as stated: the step after the last token appends every account still in
\* the buffer with the default role, and filter_accounts([], accounts, R) is
\* one association per account, in order, each with role R.
C6_FinalDefaultStep ==
    fpc = "returned" =>
        /\ result = last.result \o OnePerAccount(last.buf, default_role)
        /\ (filters = <<>> => result = OnePerAccount(accounts, default_role))

\* C7: right after a --reset step the buffer is the full account list handed
\* to filter_accounts, whatever the steps before it.
C7_ResetRestoresAccounts == last.op = "--reset" => acc_buf = accounts

\* C7 witness: a --reset taken after the buffer was narrowed and drained.
C7_Witness ==
    /\ last.op = "--reset"
    /\ Len(last.done) = 3
    /\ last.done[2] \in {"--assoc", "--assoc-default"}
    /\ last.done[1] \in {"--include-only", "--exclude"}
    /\ last.buf = <<>>
    /\ last.result # <<>>
    /\ Len(last.result) < Len(accounts)
    /\ acc_buf = accounts

\* C8 as stated: --include-only P1 --exclude P2 returns one default-role
\* association per account that matches P1 and does not match P2, in the
\* original order.
C8_IncludeThenExclude ==
    (/\ fpc = "returned"
     /\ Len(filters) = 4
     /\ filters[1] = "--include-only"
     /\ filters[3] = "--exclude")
        => result = OnePerAccount(
                        SelectSeq(accounts,
                            LAMBDA acct : /\ search(filters[2], acct.accountName)
                                          /\ ~search(filters[4], acct.accountName)),
                        default_role)

\* The roles a --assoc argument lists
RolesListed(arg) == IF arg = "a,b" THEN <<"a", "b">> ELSE <<arg>>

\* C9: a --assoc R1,...,Rk step over the buffer a1..an appends exactly n*k
\* associations, account by account and, within an account, role by role.
C9_AssocAccountMajor ==
    last.op = "--assoc" =>
        LET roles == RolesListed(last.arg)
            n == Len(last.buf)
            k == Len(roles)
            base == Len(last.result) IN
        /\ Len(result) = base + n * k
        /\ Take(result, base) = last.result
        /\ \A i \in 1..n : \A j \in 1..k :
              result[base + (i - 1) * k + j] = Association(last.buf[i], roles[j])

\* C9 witness: --assoc a,b over two accounts has appended four associations.
C9_Witness ==
    /\ last.op = "--assoc" /\ last.arg = "a,b"
    /\ Len(last.buf) = 2
    /\ Len(result) = Len(last.result) + 4

\* An association step was taken and no --reset since
DrainedSinceReset ==
    \E i \in 1..Len(last.done) :
        /\ last.done[i] \in {"--assoc", "--assoc-default"}
        /\ \A j \in (i + 1)..Len(last.done) : last.done[j] # "--reset"

\* C10: after a --assoc or --assoc-default step the buffer is empty and stays
\* empty through the steps that follow until a --reset; an association step
\* taken on an empty buffer, the final one included, appends nothing.
C10_DrainedUntilReset ==
    /\ (fpc = "loop" /\ DrainedSinceReset) => acc_buf = <<>>
    /\ (last.op \in {"--assoc", "--assoc-default", "final"} /\ last.buf = <<>>)
           => result = last.result

\* C10 witness: an association step, a filter step on the empty buffer, then
\* an association step that found the buffer empty.
C10_Witness ==
    /\ last.done = <<"--assoc-default", "--include-only", "--assoc-default">>
    /\ Len(accounts) = 3
    /\ Len(last.result) > 0
    /\ last.buf = <<>>
    /\ acc_buf = <<>>
    /\ result = last.result

(***************************************************************************)
(* Properties of run() (SpecCli)                                           *)
(***************************************************************************)
\* run() is over: it returned, or an exception left it.
CliFinished == rpc \in {"returned", "uncaught"}

ParseError ==
    ppc = "raised" /\ parsed.exc.type \in {"InvalidArgument", "MissingArgumentParameter"}

FilterError ==
    fpc = "raised" /\ fexc.type \in {"UnexpectedFilterArgument", "MissingFilterParameter"}

\* C13: run() returns 0 exactly on help display and when the executor's
\* method completed, 1 exactly on an argument parse error, 2 exactly on a
\* session error (InvalidSsoProfile, ProfileNotFound, TokenRetrievalError);
\* each of these ends the run with its code.  The filter pipeline never
\* raises a parse error in a run, the parser having accepted its tokens.
C13_ExitCodes ==
    /\ ~FilterError
    /\ ~CliFinished => run_return = None
    /\ CliFinished =>
        /\ run_return = Some(1) <=> ParseError
        /\ run_return = Some(2) <=> sso \in SessionErrors
        /\ run_return = Some(0) <=> (ShowsHelp \/ epc = "done")
    /\ (~CliFinished /\ (ParseError \/ ShowsHelp \/ sso \in SessionErrors \/ epc = "done"))
           => ENABLED (CliParseFailed \/ CliShowHelp \/ CliReturn)

\* C13 witness: a run with a profile and a command ended with 2 because the
\* token of the SSO session could not be retrieved.
C13_Witness ==
    /\ rpc = "returned"
    /\ run_return = Some(2)
    /\ sso = "TokenRetrievalError"
    /\ parsed.profile = Some("a")
    /\ parsed.commands = <<"creds">>

(***************************************************************************)
(* Properties of run_sequence and run_subprocess (SpecExec)                *)
(***************************************************************************)
\* The child of the k-th subprocess.run ran to its end and exited non-zero
\* or wrote to stderr.
ChildFailed(k) ==
    /\ runs[k].outcome.kind = "completed"
    /\ runs[k].outcome.returncode # 0 \/ runs[k].outcome.stderr # ""

\* The k-th item written is that of the k-th child: its association, exit
\* code, stdout and stderr.
ChildReported(k) ==
    LET items == JsonValues(out) IN
    /\ k <= Len(items)
    /\ AccountRoleOf(items[k]) = runs[k].assoc
    /\ items[k].exitCode = runs[k].outcome.returncode
    /\ items[k].stdout = runs[k].outcome.stdout
    /\ items[k].stderr = runs[k].outcome.stderr

\* run_sequence was aborted while handling the k-th child, the last one run
\* (the credentials of its association had been obtained).
AbortedAtChild(k) ==
    epc = "aborted" /\ k = Len(runs) /\ answers[Len(answers)] = "ok"

\* C14 as stated: in exec mode a child that exits non-zero or writes to
\* stderr never makes the orchestrator fail: its item with exitCode, stdout
\* and stderr is emitted and the run goes on to the later associations.
C14_ChildFailureIsReported ==
    mode = "exec" =>
        \A k \in 1..Len(runs) :
            ChildFailed(k) => (ChildReported(k) /\ ~AbortedAtChild(k))

CredentialNames == {"AWS_ACCESS_KEY_ID", "AWS_SECRET_ACCESS_KEY", "AWS_SESSION_TOKEN"}

\* C15: in exec mode the environment of each child is the orchestrator's
\* environment as it was when the child was started, with the three AWS
\* variables set to the credentials of the child's association and every
\* other variable as it was; the orchestrator's environment is the same after
\* every child as before it, so it never holds an association's credentials.
C15_ChildEnvironment ==
    mode = "exec" =>
        \A k \in 1..Len(runs) :
            LET credentials == RoleCredentials(runs[k].assoc.accountId, runs[k].assoc.role)
                env == runs[k].env IN
            /\ DOMAIN env = DOMAIN runs[k].ambient
            /\ env["AWS_ACCESS_KEY_ID"] = credentials.accessKeyId
            /\ env["AWS_SECRET_ACCESS_KEY"] = credentials.secretAccessKey
            /\ env["AWS_SESSION_TOKEN"] = credentials.sessionToken
            /\ \A n \in DOMAIN env \ CredentialNames : env[n] = runs[k].ambient[n]
            /\ runs[k].ambient = os_environ
            /\ \A n \in CredentialNames : os_environ[n] # env[n]

\* C15 witness: two children were run for different associations in an
\* environment that already held values for the three AWS variables.
C15_Witness ==
    /\ mode = "exec"
    /\ Len(runs) = 2
    /\ runs[1].assoc # runs[2].assoc
    /\ \A n \in CredentialNames : runs[1].ambient[n] = <<"ambient", n>>
    /\ runs[2].env # runs[1].env
    /\ runs[2].env["PATH"] = <<"/bin">>

\* run() has gone past its if/elif chain on command_args.
Dispatched == fpc = "returned" /\ rpc # "filter"

\* C16: when nothing is left after the optional --profile pair and the filter
\* segment, parse_arguments returns empty commandTokens; and with empty
\* commandTokens run() does what it does for the single token list: it calls
\* list_associations on the associations filter_accounts returned, no
\* subprocess is run and every item written is a bare association.
C16_EmptyCommandIsList ==
    /\ (ppc # "call" /\ ~FirstHelpRule(Tokens) /\ IsProfileAndFilters(Tokens))
           => (parsed.status = "returned" /\ parsed.commands = <<>>)
    /\ (Dispatched /\ parsed.commands \in {<<>>, <<"list">>})
           => /\ mode = "list"
              /\ associations = result
              /\ command_args = <<>>
              /\ runs = <<>>
              /\ \A k \in 1..Len(JsonValues(out)) :
                    JsonValues(out)[k] = AccountRoleOf(JsonValues(out)[k])

\* C16 witness: a run with filter tokens and no command has listed
\* associations and returned.
C16_Witness ==
    /\ rpc = "returned"
    /\ IsProfileAndFilters(Tokens)
    /\ parsed.filters # <<>>
    /\ parsed.commands = <<>>
    /\ epc = "done"
    /\ Len(JsonValues(out)) = 2

(***************************************************************************)
(* Invariants of filter_accounts (SpecFilter)                              *)
(***************************************************************************)
\* b can be had from s by deleting elements: nothing added, duplicated or
\* reordered.
RECURSIVE IsSubsequence(_, _)
IsSubsequence(b, s) ==
    IF b = <<>> THEN TRUE
    ELSE IF s = <<>> THEN FALSE
    ELSE IF Head(b) = Head(s) THEN IsSubsequence(Tail(b), Tail(s))
    ELSE IsSubsequence(b, Tail(s))

\* C17: at every step of filter_accounts the buffer is an order-preserving
\* subsequence of the original account list.
C17_BufferIsSubsequence == IsSubsequence(acc_buf, accounts)

\* C17 witness: --include-only has kept the first and the third of three
\* accounts.
C17_Witness ==
    /\ last.op = "--include-only"
    /\ Len(accounts) = 3
    /\ acc_buf = <<accounts[1], accounts[3]>>

IsPrefix(p, s) == Len(p) <= Len(s) /\ SubSeq(s, 1, Len(p)) = p

\* C18: the result before a step is a prefix of the result after it; only
\* --assoc, --assoc-default and the final step can extend it, the steps
\* --include-only, --exclude and --reset leave it as it was.
C18_ResultAppendOnly ==
    /\ IsPrefix(last.result, result)
    /\ last.op \notin {"--assoc", "--assoc-default", "final"} => result = last.result

\* C18 witness: an --assoc-default step has extended a result that already
\* held associations.
C18_Witness ==
    /\ last.op = "--assoc-default"
    /\ last.result # <<>>
    /\ Len(result) > Len(last.result)

(***************************************************************************)
(* Order of the executor's work (SpecExec)                                 *)
(***************************************************************************)
\* The associations of the items written, in the order written
ItemAssociations ==
    [k \in 1..Len(JsonValues(out)) |-> AccountRoleOf(JsonValues(out)[k])]

\* C19: in every mode the loop takes the associations one by one in list
\* order, one collaborator answer each; the items written are items of
\* associations already taken, in their order, and so are the children run;
\* and between two iterations, so before any collaborator call or child of
\* the next association, every item written has been flushed.
C19_OneAtATimeFlushed ==
    epc \in {"loop", "done", "aborted"} =>
        /\ Len(answers) = pos
        /\ pos <= Len(associations)
        /\ IsSubsequence(ItemAssociations, Take(associations, pos))
        /\ IsSubsequence([k \in 1..Len(runs) |-> runs[k].assoc], Take(associations, pos))
        /\ \A k \in 1..Len(out) : out[k].kind = "json" => k <= flushed

\* C19 witness: exec mode, two items written and flushed, a third association
\* not taken yet.
C19_Witness ==
    /\ mode = "exec" /\ epc = "loop"
    /\ pos = 2 /\ Len(associations) = 3
    /\ Len(JsonValues(out)) = 2
    /\ out[Len(out)].kind = "json"
    /\ flushed = Len(out)

\* The associations among the first n whose role the service lists
RECURSIVE WithRole(_)
WithRole(n) ==
    IF n = 0 THEN <<>>
    ELSE WithRole(n - 1) \o (IF RoleExists(associations[n]) THEN <<associations[n]>> ELSE <<>>)

\* C20: when the collaborator's answer for association i is a failure other
\* than forbidden, the run is aborted at i: i is the last association taken
\* and its answer the last one, no child was run for it, the items written
\* are those of the associations before i, and "]" has not been written.
C20_FailureAborts ==
    \A i \in 1..Len(answers) :
        answers[i] = "error" =>
            /\ epc = "aborted"
            /\ pos = i /\ Len(answers) = i
            /\ IsSubsequence([k \in 1..Len(runs) |-> runs[k].assoc],
                             Take(associations, i - 1))
            /\ ItemAssociations = IF mode = "list" THEN WithRole(i - 1)
                                  ELSE NonForbidden(i - 1)
            /\ \A k \in 1..Len(out) : out[k] # Text("]\n")

\* C20 witness: the service failed on the third association after two items
\* had been written.
C20_Witness ==
    /\ epc = "aborted"
    /\ Len(answers) = 3 /\ answers[3] = "error"
    /\ Len(JsonValues(out)) = 2
    /\ mode \in {"creds", "exec"}

(***************************************************************************)
(* The memoization of get_account_roles (SpecLru)                          *)
(***************************************************************************)
\* C21 as stated: in list mode the service enumerates the roles of an
\* account at most once in a run, however many accounts there are and in
\* whatever order they recur in the association list.
C21_RolesEnumeratedOnce ==
    mode = "list" => \A id \in DOMAIN role_calls : role_calls[id] <= 1

(***************************************************************************)
(* The parser's filter segment and the filter pipeline (SpecParse)         *)
(***************************************************************************)
RECURSIVE Flatten(_)
Flatten(ss) == IF ss = <<>> THEN <<>> ELSE Head(ss) \o Flatten(Tail(ss))

\* _parse_filters takes all of s as a filter segment.
ParserAcceptsFilters(s) ==
    _parse_filters(s).exc = NoExc /\ _parse_filters(s).consume = Len(s)

\* filter_accounts runs through all of s without raising.
FilterAccepts(s) == filter_accounts(s, Take(AccountPool, 2), "a").exc = NoExc

\* The tokens parse_arguments handed to _parse_filters
AfterProfile == Drop(Tokens, IF parsed.profile = None THEN 0 ELSE 2)

\* C22: filter_accounts does not raise on the filter tokens of an accepted
\* command line and cuts them into the steps the parser cut them into; and
\* for every token list, the parser takes all of it as a filter segment
\* exactly when filter_accounts accepts it, both cutting it into the same
\* steps, a value that looks like a flag included.
C22_SameFilterGrammar ==
    ppc # "call" =>
        /\ (parsed.status = "returned" /\ ~parsed.show_help) =>
              /\ FilterAccepts(parsed.filters)
              /\ Flatten(filter_accounts_steps(parsed.filters)) = parsed.filters
              /\ filter_accounts_steps(parsed.filters) = _parse_filters_steps(AfterProfile)
        /\ ParserAcceptsFilters(Tokens) <=> FilterAccepts(Tokens)
        /\ ParserAcceptsFilters(Tokens)
              => /\ _parse_filters_steps(Tokens) = filter_accounts_steps(Tokens)
                 /\ Flatten(_parse_filters_steps(Tokens)) = _parse_filters(Tokens).filters

\* C22 witness: an accepted command line whose filter tokens are a pair flag
\* with a flag as its value, then a single flag, and a command.
C22_Witness ==
    /\ ppc = "returned" /\ ~parsed.show_help
    /\ Len(parsed.filters) = 3
    /\ parsed.filters[1] \in {"--include-only", "--exclude", "--assoc"}
    /\ parsed.filters[2] \in FilterFlags
    /\ Len(filter_accounts_steps(parsed.filters)) = 2
    /\ parsed.commands # <<>>

(***************************************************************************)
(* Collaborator calls of a run (SpecCli)                                   *)
(***************************************************************************)
\* Some call has been made to the session (its creation, the enumeration of
\* accounts or of roles, a credential request) or a child has been run.
CollaboratorCalled ==
    \/ session_calls # <<>>
    \/ sso # "none"
    \/ answers # <<>>
    \/ \E id \in DOMAIN role_calls : role_calls[id] > 0
    \/ cache # <<>>
    \/ runs # <<>>

\* C23: a collaborator call or a child is only ever made once parse_arguments
\* has returned with showHelp = false; when the parser raised, or when the
\* help rule fired, the run has made none and ends by returning.
C23_NoCallBeforeParsed ==
    /\ CollaboratorCalled => (ppc = "returned" /\ ~parsed.show_help)
    /\ (ppc # "call" /\ FirstHelpRule(Tokens)) => ~CollaboratorCalled
    /\ (CliFinished /\ (ppc = "raised" \/ ShowsHelp))
           => (rpc = "returned" /\ ~CollaboratorCalled)

\* C23 witness: a run whose command line names a profile and a command ended
\* on an invalid argument without any call.
C23_Witness ==
    /\ rpc = "returned"
    /\ ppc = "raised" /\ parsed.exc.type = "InvalidArgument"
    /\ Tokens[1] = "--profile"
    /\ \E k \in 1..Len(Tokens) : Tokens[k] = "creds"
    /\ ~CollaboratorCalled

(***************************************************************************)
(* The segments of an accepted command line (SpecParse)                    *)
(***************************************************************************)
\* --profile and the profile returned, nothing if none was returned
ProfilePair == IF parsed.profile = None THEN <<>> ELSE <<"--profile", parsed.profile[1]>>

\* C24: when parse_arguments succeeds with showHelp = false, the profile
\* pair, filterTokens and commandTokens concatenated are the tokens after the
\* program name; commandTokens is empty or starts with exec, list or creds;
\* after exec it holds every remaining token, after list or creds only that
\* token.
C24_SegmentsPartitionInput ==
    (ppc = "returned" /\ ~parsed.show_help) =>
        /\ ProfilePair \o parsed.filters \o parsed.commands = Tokens
        /\ parsed.commands # <<>> => parsed.commands[1] \in {"exec", "list", "creds"}
        /\ (parsed.commands # <<>> /\ parsed.commands[1] = "exec")
              => parsed.commands = Drop(Tokens, Len(ProfilePair) + Len(parsed.filters))
        /\ (parsed.commands # <<>> /\ parsed.commands[1] \in {"list", "creds"})
              => Len(parsed.commands) = 1

\* C24 witness: an accepted command line with a profile, a filter token and
\* a command.
C24_Witness ==
    /\ ppc = "returned" /\ ~parsed.show_help
    /\ parsed.profile # None
    /\ parsed.filters # <<>>
    /\ parsed.commands # <<>>

(***************************************************************************)
(* Help before errors (SpecParse)                                          *)
(***************************************************************************)
HelpOnly == Returned(TRUE, None, <<>>, <<>>)

\* C25 as stated: whenever some --help has no exec before it or stands right
\* after an exec, parse_arguments returns showHelp = true, no profile, no
\* filter tokens and no command tokens, and raises nothing.
C25_AsStated == (ppc # "call" /\ AnyHelpRule(Tokens)) => parsed = HelpOnly

\* C25, amended: whenever the first --help has no exec before it or stands
\* right after the first exec, parse_arguments returns showHelp = true, no
\* profile, no filter tokens and no command tokens, and raises nothing,
\* whatever the other tokens are.
C25_HelpOverridesErrors == (ppc # "call" /\ FirstHelpRule(Tokens)) => parsed = HelpOnly

\* C25 witness: help returned for tokens that start with an unknown token and
\* end with a --profile that has no value.
C25_Witness ==
    /\ ppc = "returned" /\ parsed = HelpOnly
    /\ Len(Tokens) >= 3
    /\ Tokens[1] = "x"
    /\ Tokens[Len(Tokens)] = "--profile"

(***************************************************************************)
(* Credential requests and children (SpecExec)                             *)
(***************************************************************************)
\* The associations among the first n for which the service returned
\* credentials
RECURSIVE WithCredentials(_)
WithCredentials(n) ==
    IF n = 0 THEN <<>>
    ELSE WithCredentials(n - 1)
         \o (IF answers[n] = "ok" THEN <<associations[n]>> ELSE <<>>)

\* C26: in creds and exec modes one credential request is made per
\* association taken, in list order, and a completed run has taken every
\* association; in exec mode the children run are, in order, one for each
\* association whose request returned credentials and none for any other;
\* the credentials in a child's environment, and those in an item of creds
\* mode, are the ones of that association's accountId and role.
C26_OneRequestOneChild ==
    (mode \in {"creds", "exec"} /\ epc \in {"loop", "done", "aborted"}) =>
        /\ Len(answers) = pos
        /\ epc = "done" => pos = Len(associations)
        /\ [k \in 1..Len(runs) |-> runs[k].assoc] =
               IF mode = "exec" THEN WithCredentials(pos) ELSE <<>>
        /\ \A k \in 1..Len(runs) :
              LET credentials == RoleCredentials(runs[k].assoc.accountId, runs[k].assoc.role) IN
              /\ runs[k].args = command_args
              /\ runs[k].env["AWS_ACCESS_KEY_ID"] = credentials.accessKeyId
              /\ runs[k].env["AWS_SECRET_ACCESS_KEY"] = credentials.secretAccessKey
              /\ runs[k].env["AWS_SESSION_TOKEN"] = credentials.sessionToken
        /\ mode = "creds" =>
              \A k \in 1..Len(JsonValues(out)) :
                  LET item == JsonValues(out)[k]
                      credentials == RoleCredentials(item.accountId, item.role) IN
                  /\ item.accessKeyId = credentials.accessKeyId
                  /\ item.secretAccessKey = credentials.secretAccessKey
                  /\ item.sessionToken = credentials.sessionToken

\* C26 witness: a completed exec run of three associations, not all the
\* same, with one child each.
C26_Witness ==
    /\ mode = "exec" /\ epc = "done"
    /\ Len(associations) = 3
    /\ Len(runs) = 3
    /\ runs[1].assoc # runs[2].assoc
    /\ runs[2].assoc.accountId # runs[3].assoc.accountId

====
